---- MODULE Spec2Model ----
(***************************************************************************)
(* Model of src/mongo_server.js: an Express application with six routes    *)
(* (seller signup and login, product list / add / update / delete), a      *)
(* bearer-token middleware in front of the three product-mutating routes,  *)
(* and two MongoDB collections (sellers, products) reached via mongoose.   *)
(*                                                                         *)
(* A request is a small process: it is received (the synchronous part of   *)
(* the route: middleware, body validation, everything up to the first      *)
(* await), its store call settles (the atomic single-document operation of *)
(* the database, or a failure of the call), and its continuation sends the *)
(* response.  Requests in different slots interleave at these points.      *)
(***************************************************************************)
EXTENDS Integers, Sequences, FiniteSets, TLC

(***************************************************************************)
(* Bounds of the model.                                                    *)
(***************************************************************************)
\* Number of request slots (requests that can be in flight together).
MaxReqs == 2
\* ObjectIds the product collection can hand out.
MaxProductId == 2
\* Last clock tick.
MaxNow == 6
\* Clock ticks per second: Date.now() is finer than a JWT NumericDate.
TicksPerSec == 2
\* Lifetime of a token in seconds ('1h' in the source, scaled down).
ExpiresIn == 1

Slots == 1..MaxReqs

(***************************************************************************)
(* JavaScript values.                                                      *)
(***************************************************************************)
\* A body field that is not present in req.body (destructures to undefined).
Missing == "<missing>"

\* !x for a body field: undefined and the empty string are falsy.
TruthyMutEmptyOk(v) == v # Missing

Truthy(v) == v # Missing /\ v # ""

(***************************************************************************)
(* Tokens (jsonwebtoken).  sig names the key the token was signed with.    *)
(***************************************************************************)
\* process.env.JWT_SECRET
JWT_SECRET == "server-secret"

\* split(' ')[1] of a header with a single word.
UndefinedToken == [sig |-> "<undefined>", id |-> 0, username |-> Missing, iat |-> 0, exp |-> 0]

\* split(' ')[1] of a header with two spaces after the scheme: ''.
EmptyToken == [sig |-> "<empty>", id |-> 0, username |-> Missing, iat |-> 0, exp |-> 0]

\* A well-formed token signed with a key that is not the server's.
ForgedToken == [sig |-> "other-secret", id |-> 1, username |-> "u1", iat |-> 0, exp |-> MaxNow + ExpiresIn + 1]

\* A string that is no JWT at all.
GarbageToken == [sig |-> "<malformed>", id |-> 0, username |-> Missing, iat |-> 0, exp |-> 0]

\* Math.floor(Date.now() / 1000): the clock in whole seconds.
NumericDate(t) == t \div TicksPerSec

\* jwt.sign({id, username}, secret, {expiresIn: '1h'}) at clock t: iat is
\* the clock in whole seconds, exp is iat plus the lifetime.
jwtSign(seller, secret, t) ==
    [sig |-> secret, id |-> seller.id, username |-> seller.username,
     iat |-> NumericDate(t), exp |-> NumericDate(t) + ExpiresIn]

\* jwt.verify(token, secret) at clock t: TRUE when no error is reported.
\* The signature must be the secret's and the clock must be before exp.
VerifyMutIgnoreExpiry(token, secret, t) == token.sig = secret

jwtVerify(token, secret, t) ==
    /\ token.sig = secret
    /\ NumericDate(t) < token.exp

(***************************************************************************)
(* The Authorization header: its first word and the words after it, as     *)
(* split(' ') yields them.                                                 *)
(***************************************************************************)
\* req.headers['authorization'] when the header is not sent.
NoHeader == [scheme |-> Missing, rest |-> <<>>]

Header(scheme, rest) == [scheme |-> scheme, rest |-> rest]

\* authHeader && authHeader.split(' ')[1]
HeaderToken(h) ==
    IF h.scheme = Missing \/ Len(h.rest) = 0 THEN UndefinedToken ELSE h.rest[1]

\* !token
TokenFalsy(token) == token.sig \in {"<undefined>", "<empty>"}

\* authenticateToken: 401, 403, or 0 when next() is called.
AuthMutSkipVerify(h, t) ==
    IF TokenFalsy(HeaderToken(h)) THEN 401 ELSE 0

authenticateToken(h, t) ==
    IF TokenFalsy(HeaderToken(h)) THEN 401
    ELSE IF ~jwtVerify(HeaderToken(h), JWT_SECRET, t) THEN 403
    ELSE 0

(***************************************************************************)
(* Passwords (bcrypt).  The salt is left out: a hash stands for every      *)
(* hash of the same password at the same cost.                             *)
(***************************************************************************)
\* bcrypt.hash(password, 10)
bcryptHash(password) == [bcrypt |-> 10, of |-> password]

\* bcrypt.compare(password, hash)
bcryptCompare(password, hash) == hash.of = password

(***************************************************************************)
(* Documents.  NoSeller and NoProduct stand for null.                      *)
(***************************************************************************)
NoSeller == [id |-> 0, username |-> Missing, password |-> bcryptHash(Missing)]

NoProduct == [id |-> 0, name |-> Missing, description |-> Missing]

\* A path id that is no ObjectId (mongoose cannot cast it).
BadId == 0

(***************************************************************************)
(* Requests.  pc: "idle" (the slot is free), "await" (the handler awaits   *)
(* its store call), "settled" (the call settled, the continuation has not  *)
(* run), "done" (the request is finished).                                 *)
(*   settled  the awaited call: "none", "resolved", "rejected" (a failed   *)
(*            call, a duplicate key, a CastError)                          *)
(*   seller, product, list   the handler's local documents                 *)
(*   status, body, text, token   the response: its status, the shape of    *)
(*            its body ("status", "error", "message", "token", "list",     *)
(*            "product"), its text and the token it carries                *)
(* The remaining fields record what happened to the request.               *)
(*   handler  the route handler ran                                        *)
(*   ops      store operations issued for the request                      *)
(*   sent     responses sent                                               *)
(*   fault    how the store call failed: "none", "before" it took effect,  *)
(*            "after" it took effect                                       *)
(*   at       the clock when the request arrived                           *)
(*   held     signup: the username was held by a seller on arrival         *)
(*   gone     update: the store call ran after a delete of the id was      *)
(*            answered 200                                                 *)
(*   quiet    list: the find ran with no product write in flight, in a run *)
(*            of successful operations                                     *)
(*   expect   list: the products the responses of that run said exist      *)
(***************************************************************************)
IdleReq ==
    [pc |-> "idle", route |-> "none", header |-> NoHeader,
     username |-> Missing, password |-> Missing,
     name |-> Missing, description |-> Missing, id |-> BadId,
     settled |-> "none", seller |-> NoSeller, product |-> NoProduct, list |-> {},
     status |-> 0, body |-> "none", text |-> "", token |-> UndefinedToken,
     handler |-> FALSE, ops |-> 0, sent |-> 0, fault |-> "none", at |-> 0,
     held |-> FALSE, gone |-> FALSE, quiet |-> FALSE, expect |-> {}]

VARIABLES
    sellers,        \* the sellers collection: a set of seller documents
    products,       \* the products collection: a set of product documents
    nextProductId,  \* the next ObjectId a new Product gets
    now,            \* the clock, in ticks
    issued,         \* <<token, tick>>: the tokens logins returned, and when
    req,            \* the request in each slot
    deleted,        \* id -> the number of deletes of the id answered 200
    ledger,         \* the products the responses so far say exist
    clean           \* only successful, non-overlapping product writes so far

vars == <<sellers, products, nextProductId, now, issued, req, deleted, ledger, clean>>

Init ==
    /\ sellers = {}
    /\ products = {}
    /\ nextProductId = 1
    /\ now = 0
    /\ issued = {}
    /\ req = [r \in Slots |-> IdleReq]
    /\ deleted = [i \in 1..MaxProductId |-> 0]
    /\ ledger = {}
    /\ clean = TRUE

\* res.status(s).json(...) or res.sendStatus(s), ending the request.
Respond(q, s, body, text) ==
    [q EXCEPT !.pc = "done", !.status = s, !.body = body, !.text = text,
              !.sent = q.sent + 1]

\* The request is taken up by a route.
Arrive(route, h) ==
    [IdleReq EXCEPT !.route = route, !.header = h, !.at = now]

\* The awaited store call settles.
Settle(q, fault, rejected) ==
    [q EXCEPT !.pc = "settled", !.fault = fault,
              !.settled = IF rejected THEN "rejected" ELSE "resolved"]

\* A product write (add, update, delete) is between its receipt and its response.
WriteInFlight(r) ==
    /\ req[r].pc \in {"await", "settled"}
    /\ req[r].route \in {"add", "update", "delete"}

(***************************************************************************)
(* POST /api/sellers/signup                                                *)
(***************************************************************************)
\* The unique index on username: a save of a held username is rejected.
SaveMutNoUniqueIndex(doc) == FALSE

DuplicateKey(doc) == \E s \in sellers : s.username = doc.username

\* An ObjectId no stored seller has (sellers are never deleted).
FreshSellerId == Cardinality(sellers) + 1

SignupReceive(r, username, password) ==
    /\ req[r].pc = "idle"
    /\ LET q == [Arrive("signup", NoHeader) EXCEPT
                    !.username = username, !.password = password, !.handler = TRUE,
                    !.held = \E s \in sellers : s.username = username]
       IN req' = [req EXCEPT ![r] =
                IF ~Truthy(username) \/ ~Truthy(password)
                THEN Respond(q, 400, "error", "Username and password are required")
                ELSE [q EXCEPT !.pc = "await"]]
    /\ UNCHANGED <<sellers, products, nextProductId, now, issued, deleted, ledger, clean>>

\* await bcrypt.hash; new Seller; await newSeller.save().  The hash touches
\* no shared state, so the two awaits are one step.
SignupSave(r, fault) ==
    /\ req[r].pc = "await"
    /\ req[r].route = "signup"
    /\ LET newSeller == [id |-> FreshSellerId, username |-> req[r].username,
                         password |-> bcryptHash(req[r].password)]
           stored == fault # "before" /\ ~DuplicateKey(newSeller)
       IN /\ sellers' = IF stored THEN sellers \cup {newSeller} ELSE sellers
          /\ req' = [req EXCEPT ![r] =
                [Settle(@, fault, ~stored \/ fault # "none") EXCEPT
                    !.ops = @ + 1, !.seller = newSeller]]
    /\ UNCHANGED <<products, nextProductId, now, issued, deleted, ledger, clean>>

SignupReply(r) ==
    /\ req[r].pc = "settled"
    /\ req[r].route = "signup"
    /\ req' = [req EXCEPT ![r] =
                IF req[r].settled = "rejected"
                THEN Respond(@, 500, "error", "Failed to register seller")
                ELSE Respond(@, 201, "message", "Seller registered successfully")]
    /\ UNCHANGED <<sellers, products, nextProductId, now, issued, deleted, ledger, clean>>

(***************************************************************************)
(* POST /api/sellers/login                                                 *)
(***************************************************************************)
LoginReceive(r, username, password) ==
    /\ req[r].pc = "idle"
    /\ LET q == [Arrive("login", NoHeader) EXCEPT
                    !.username = username, !.password = password, !.handler = TRUE]
       IN req' = [req EXCEPT ![r] =
                IF ~Truthy(username) \/ ~Truthy(password)
                THEN Respond(q, 400, "error", "Username and password are required")
                ELSE [q EXCEPT !.pc = "await"]]
    /\ UNCHANGED <<sellers, products, nextProductId, now, issued, deleted, ledger, clean>>

\* Seller.findOne({ username })
findOne(username) ==
    IF \E s \in sellers : s.username = username
    THEN CHOOSE s \in sellers : s.username = username
    ELSE NoSeller

LoginFind(r, fault) ==
    /\ req[r].pc = "await"
    /\ req[r].route = "login"
    /\ req' = [req EXCEPT ![r] =
                [Settle(@, fault, fault # "none") EXCEPT
                    !.ops = @ + 1,
                    !.seller = IF fault = "none" THEN findOne(req[r].username)
                               ELSE NoSeller]]
    /\ UNCHANGED <<sellers, products, nextProductId, now, issued, deleted, ledger, clean>>

\* The response to a login whose username has no seller record.
UnknownMutDistinctBody(q) == Respond(q, 401, "error", "Unknown username")

LoginUnknown(q) == Respond(q, 401, "error", "Invalid credentials")

\* The response to a login whose password does not match the stored hash.
LoginMismatch(q) == Respond(q, 401, "error", "Invalid credentials")

\* The continuation after findOne: compare, sign, respond.  bcrypt.compare
\* touches no shared state, so its await is part of the step.
LoginReply(r) ==
    /\ req[r].pc = "settled"
    /\ req[r].route = "login"
    /\ LET q == req[r]
           token == jwtSign(q.seller, JWT_SECRET, now)
           ok == /\ q.settled = "resolved"
                 /\ q.seller # NoSeller
                 /\ bcryptCompare(q.password, q.seller.password)
       IN /\ req' = [req EXCEPT ![r] =
                IF q.settled = "rejected"
                THEN Respond(q, 500, "error", "Failed to login seller")
                ELSE IF q.seller = NoSeller THEN LoginUnknown(q)
                ELSE IF ~bcryptCompare(q.password, q.seller.password) THEN LoginMismatch(q)
                ELSE [Respond(q, 200, "token", "") EXCEPT !.token = token]]
          /\ issued' = IF ok THEN issued \cup {<<token, now>>} ELSE issued
    /\ UNCHANGED <<sellers, products, nextProductId, now, deleted, ledger, clean>>

(***************************************************************************)
(* GET /api/products                                                       *)
(***************************************************************************)
ListReceive(r, h) ==
    /\ req[r].pc = "idle"
    /\ req' = [req EXCEPT ![r] = [Arrive("list", h) EXCEPT !.pc = "await", !.handler = TRUE]]
    /\ UNCHANGED <<sellers, products, nextProductId, now, issued, deleted, ledger, clean>>

\* Product.find()
FindMutNamedOnly == {p \in products : p.name = "n1"}

find == products

ListFind(r, fault) ==
    /\ req[r].pc = "await"
    /\ req[r].route = "list"
    /\ req' = [req EXCEPT ![r] =
                [Settle(@, fault, fault # "none") EXCEPT
                    !.ops = @ + 1,
                    !.list = IF fault = "none" THEN find ELSE {},
                    !.quiet = clean /\ \A o \in Slots : ~WriteInFlight(o),
                    !.expect = ledger]]
    /\ UNCHANGED <<sellers, products, nextProductId, now, issued, deleted, ledger, clean>>

ListReply(r) ==
    /\ req[r].pc = "settled"
    /\ req[r].route = "list"
    /\ req' = [req EXCEPT ![r] =
                IF req[r].settled = "rejected"
                THEN Respond(@, 500, "error", "Failed to fetch products")
                ELSE Respond(@, 200, "list", "")]
    /\ UNCHANGED <<sellers, products, nextProductId, now, issued, deleted, ledger, clean>>

(***************************************************************************)
(* The protected routes: authenticateToken, then the handler up to its     *)
(* first await.  jwt.verify calls back before it returns, so the           *)
(* middleware and the start of the handler are one step.                   *)
(***************************************************************************)
\* A protected request after the middleware: answered by sendStatus, or
\* handed to the handler, which validates the body.
Protected(route, h, id, name, description, needsBody) ==
    LET q == [Arrive(route, h) EXCEPT !.id = id, !.name = name, !.description = description]
        a == authenticateToken(h, now)
    IN IF a = 401 THEN Respond(q, 401, "status", "Unauthorized")
       ELSE IF a = 403 THEN Respond(q, 403, "status", "Forbidden")
       ELSE IF needsBody /\ (~Truthy(name) \/ ~Truthy(description))
       THEN Respond([q EXCEPT !.handler = TRUE], 400, "error",
                    "Product name and description are required")
       ELSE [q EXCEPT !.handler = TRUE, !.pc = "await"]

\* The run stays one of successful operations in sequence.
StaysClean(r, q) ==
    clean /\ (q.pc = "await" => \A o \in Slots \ {r} : ~WriteInFlight(o))

\* The ledger is kept for such runs only.
Keep(c, l) == IF c THEN l ELSE {}

(***************************************************************************)
(* POST /api/products                                                      *)
(***************************************************************************)
AddReceive(r, h, name, description) ==
    /\ req[r].pc = "idle"
    /\ LET q == Protected("add", h, BadId, name, description, TRUE)
           \* new Product({ name, description }): the document gets its ObjectId
           newProduct == [id |-> nextProductId, name |-> name, description |-> description]
       IN /\ q.pc = "await" => nextProductId <= MaxProductId
          /\ req' = [req EXCEPT ![r] =
                IF q.pc = "await" THEN [q EXCEPT !.product = newProduct] ELSE q]
          /\ nextProductId' = IF q.pc = "await" THEN nextProductId + 1 ELSE nextProductId
          /\ clean' = StaysClean(r, q)
          /\ ledger' = Keep(StaysClean(r, q), ledger)
    /\ UNCHANGED <<sellers, products, now, issued, deleted>>

\* await newProduct.save()
AddSave(r, fault) ==
    /\ req[r].pc = "await"
    /\ req[r].route = "add"
    /\ products' = IF fault # "before" THEN products \cup {req[r].product} ELSE products
    /\ req' = [req EXCEPT ![r] = [Settle(@, fault, fault # "none") EXCEPT !.ops = @ + 1]]
    /\ clean' = (clean /\ fault # "after")
    /\ ledger' = Keep(clean /\ fault # "after", ledger)
    /\ UNCHANGED <<sellers, nextProductId, now, issued, deleted>>

AddReply(r) ==
    /\ req[r].pc = "settled"
    /\ req[r].route = "add"
    /\ LET ok == req[r].settled = "resolved"
       IN /\ req' = [req EXCEPT ![r] =
                IF ok THEN Respond(@, 201, "product", "Product added successfully")
                ELSE Respond(@, 500, "error", "Failed to insert product")]
          /\ ledger' = IF ok THEN Keep(clean, ledger \cup {req[r].product}) ELSE ledger
    /\ UNCHANGED <<sellers, products, nextProductId, now, issued, deleted, clean>>

(***************************************************************************)
(* PUT /api/products/:id                                                   *)
(***************************************************************************)
UpdateReceive(r, h, id, name, description) ==
    /\ req[r].pc = "idle"
    /\ LET q == Protected("update", h, id, name, description, TRUE)
       IN /\ req' = [req EXCEPT ![r] = q]
          /\ clean' = StaysClean(r, q)
          /\ ledger' = Keep(StaysClean(r, q), ledger)
    /\ UNCHANGED <<sellers, products, nextProductId, now, issued, deleted>>

\* The products with an id.
ById(id) == {p \in products : p.id = id}

\* Product.findByIdAndUpdate(id, { name, description }, { new: true }): the
\* collection afterwards.  No upsert: an id with no document changes nothing.
UpdateMutUpsert(id, name, description) ==
    (products \ ById(id)) \cup {[id |-> id, name |-> name, description |-> description]}

findByIdAndUpdate(id, name, description) ==
    IF ById(id) = {} THEN products
    ELSE (products \ ById(id)) \cup {[id |-> id, name |-> name, description |-> description]}

\* The document a findById... call resolves to: one of docs, or null.
Resolved(docs) == IF docs = {} THEN NoProduct ELSE CHOOSE p \in docs : TRUE

\* A CastError rejects the call before it reaches the store.
UpdateStore(r, fault) ==
    /\ req[r].pc = "await"
    /\ req[r].route = "update"
    /\ LET q == req[r]
           after == findByIdAndUpdate(q.id, q.name, q.description)
           applied == q.id # BadId /\ fault # "before"
           rejected == q.id = BadId \/ fault # "none"
       IN /\ products' = IF applied THEN after ELSE products
          /\ req' = [req EXCEPT ![r] =
                [Settle(@, fault, rejected) EXCEPT
                    !.ops = IF q.id = BadId THEN @ ELSE @ + 1,
                    !.gone = q.id # BadId /\ deleted[q.id] > 0,
                    !.product = IF rejected THEN NoProduct
                                ELSE Resolved({p \in after : p.id = q.id})]]
          /\ clean' = (clean /\ fault # "after")
          /\ ledger' = Keep(clean /\ fault # "after", ledger)
    /\ UNCHANGED <<sellers, nextProductId, now, issued, deleted>>

\* The continuation after findByIdAndUpdate; a rejected call is caught.
UpdateReplyMutNoCatch(r) ==
    /\ req[r].pc = "settled"
    /\ req[r].route = "update"
    /\ LET q == req[r]
           updated == q.settled = "resolved" /\ q.product # NoProduct
       IN /\ req' = [req EXCEPT ![r] =
                IF q.settled = "rejected" THEN [@ EXCEPT !.pc = "done"]
                ELSE IF q.product = NoProduct
                THEN Respond(@, 404, "error", "Product not found")
                ELSE Respond(@, 200, "product", "Product updated successfully")]
          /\ ledger' = IF updated
                       THEN Keep(clean, {p \in ledger : p.id # q.product.id} \cup {q.product})
                       ELSE ledger
    /\ UNCHANGED <<sellers, products, nextProductId, now, issued, deleted, clean>>

UpdateReply(r) ==
    /\ req[r].pc = "settled"
    /\ req[r].route = "update"
    /\ LET q == req[r]
           updated == q.settled = "resolved" /\ q.product # NoProduct
       IN /\ req' = [req EXCEPT ![r] =
                IF q.settled = "rejected"
                THEN Respond(@, 500, "error", "Failed to update product")
                ELSE IF q.product = NoProduct
                THEN Respond(@, 404, "error", "Product not found")
                ELSE Respond(@, 200, "product", "Product updated successfully")]
          /\ ledger' = IF updated
                       THEN Keep(clean, {p \in ledger : p.id # q.product.id} \cup {q.product})
                       ELSE ledger
    /\ UNCHANGED <<sellers, products, nextProductId, now, issued, deleted, clean>>

(***************************************************************************)
(* DELETE /api/products/:id                                                *)
(***************************************************************************)
DeleteReceive(r, h, id) ==
    /\ req[r].pc = "idle"
    /\ LET q == Protected("delete", h, id, Missing, Missing, FALSE)
       IN /\ req' = [req EXCEPT ![r] = q]
          /\ clean' = StaysClean(r, q)
          /\ ledger' = Keep(StaysClean(r, q), ledger)
    /\ UNCHANGED <<sellers, products, nextProductId, now, issued, deleted>>

\* Product.findByIdAndDelete(id): the collection afterwards.
findByIdAndDelete(id) == products \ ById(id)

DeleteStore(r, fault) ==
    /\ req[r].pc = "await"
    /\ req[r].route = "delete"
    /\ LET q == req[r]
           applied == q.id # BadId /\ fault # "before"
           rejected == q.id = BadId \/ fault # "none"
       IN /\ products' = IF applied THEN findByIdAndDelete(q.id) ELSE products
          /\ req' = [req EXCEPT ![r] =
                [Settle(@, fault, rejected) EXCEPT
                    !.ops = IF q.id = BadId THEN @ ELSE @ + 1,
                    !.product = IF rejected THEN NoProduct ELSE Resolved(ById(q.id))]]
          /\ clean' = (clean /\ fault # "after")
          /\ ledger' = Keep(clean /\ fault # "after", ledger)
    /\ UNCHANGED <<sellers, nextProductId, now, issued, deleted>>

DeleteReply(r) ==
    /\ req[r].pc = "settled"
    /\ req[r].route = "delete"
    /\ LET q == req[r]
           removed == q.settled = "resolved" /\ q.product # NoProduct
       IN /\ req' = [req EXCEPT ![r] =
                IF q.settled = "rejected"
                THEN Respond(@, 500, "error", "Failed to delete product")
                ELSE IF q.product = NoProduct
                THEN Respond(@, 404, "error", "Product not found")
                ELSE Respond(@, 200, "message", "Product deleted successfully")]
          /\ deleted' = IF removed THEN [deleted EXCEPT ![q.id] = @ + 1] ELSE deleted
          /\ ledger' = IF removed THEN Keep(clean, {p \in ledger : p.id # q.id}) ELSE ledger
    /\ UNCHANGED <<sellers, products, nextProductId, now, issued, clean>>

(***************************************************************************)
(* The environment: the clock advances; a finished request leaves its slot.*)
(***************************************************************************)
Tick ==
    /\ now < MaxNow
    /\ now' = now + 1
    /\ UNCHANGED <<sellers, products, nextProductId, issued, req, deleted, ledger, clean>>

Forget(r) ==
    /\ req[r].pc = "done"
    /\ req' = [req EXCEPT ![r] = IdleReq]
    /\ UNCHANGED <<sellers, products, nextProductId, now, issued, deleted, ledger, clean>>

(***************************************************************************)
(* What clients send.                                                      *)
(***************************************************************************)
\* The tokens some login has returned.
ServerTokens == {p[1] : p \in issued}

\* Authorization: Bearer <a token a login returned>
ValidHeaders == {Header("Bearer", <<t>>) : t \in ServerTokens}

\* No header, a scheme alone, a token (returned by a login, signed with
\* another key, or malformed) after "Bearer", after "Bearer" and two
\* spaces, and after another scheme.
AnyHeaders ==
    {NoHeader, Header("Bearer", <<>>)}
    \cup {Header("Bearer", <<t>>) : t \in ServerTokens \cup {ForgedToken, GarbageToken}}
    \cup {Header("Bearer", <<EmptyToken, t>>) : t \in ServerTokens}
    \cup {Header("Basic", <<t>>) : t \in ServerTokens}

\* How a store call can fail: not at all, before or after taking effect.
WriteFaults == {"none", "before", "after"}

ReadFaults == {"none", "before"}

NoFaults == {"none"}

PathIds == 0..MaxProductId

\* The headers of a class: "none", "valid" or "any".
HeadersOf(k) ==
    IF k = "none" THEN {NoHeader}
    ELSE IF k = "valid" THEN ValidHeaders
    ELSE AnyHeaders

(***************************************************************************)
(* The steps of each route, for requests in the slots S with inputs from   *)
(* the given sets (K: classes of headers, F: faults of the store call).    *)
(***************************************************************************)
SignupSteps(S, U, P, F) ==
    \/ \E r \in S, u \in U, p \in P : SignupReceive(r, u, p)
    \/ \E r \in S, f \in F : SignupSave(r, f)
    \/ \E r \in S : SignupReply(r)

LoginSteps(S, U, P, F) ==
    \/ \E r \in S, u \in U, p \in P : LoginReceive(r, u, p)
    \/ \E r \in S, f \in F : LoginFind(r, f)
    \/ \E r \in S : LoginReply(r)

ListSteps(S, K, F) ==
    \/ \E r \in S, k \in K : \E h \in HeadersOf(k) : ListReceive(r, h)
    \/ \E r \in S, f \in F : ListFind(r, f)
    \/ \E r \in S : ListReply(r)

AddSteps(S, K, N, D, F) ==
    \/ \E r \in S, k \in K, n \in N, d \in D : \E h \in HeadersOf(k) : AddReceive(r, h, n, d)
    \/ \E r \in S, f \in F : AddSave(r, f)
    \/ \E r \in S : AddReply(r)

UpdateSteps(S, K, I, N, D, F) ==
    \/ \E r \in S, k \in K, i \in I, n \in N, d \in D :
          \E h \in HeadersOf(k) : UpdateReceive(r, h, i, n, d)
    \/ \E r \in S, f \in F : UpdateStore(r, f)
    \/ \E r \in S : UpdateReply(r)

DeleteSteps(S, K, I, F) ==
    \/ \E r \in S, k \in K, i \in I : \E h \in HeadersOf(k) : DeleteReceive(r, h, i)
    \/ \E r \in S, f \in F : DeleteStore(r, f)
    \/ \E r \in S : DeleteReply(r)

(***************************************************************************)
(* Spec: the six routes, one request at a time, store calls that may fail. *)
(***************************************************************************)
One == {1}

Next ==
    \/ SignupSteps(One, {Missing, "", "u1"}, {Missing, "", "p1"}, WriteFaults)
    \/ LoginSteps(One, {Missing, "u1", "u2"}, {"", "p1", "p2"}, ReadFaults)
    \/ ListSteps(One, {"none", "valid"}, ReadFaults)
    \/ AddSteps(One, {"none", "valid"}, {Missing, "n1"}, {"", "d1"}, WriteFaults)
    \/ UpdateSteps(One, {"valid"}, PathIds, {"", "n2"}, {Missing, "d2"}, WriteFaults)
    \/ DeleteSteps(One, {"valid"}, PathIds, WriteFaults)
    \/ \E r \in One : Forget(r)

Spec == Init /\ [][Next]_vars

(***************************************************************************)
(* SpecAuth: the protected routes under every kind of header, with the     *)
(* clock running so that tokens expire.  MaxTokens bounds the logins.      *)
(***************************************************************************)
MaxTokens == 1

\* The product id the requests of the specifications below aim at.
Contested == {1}

NextAuth ==
    \/ SignupSteps(One, {"u1"}, {"p1"}, NoFaults)
    \/ (Cardinality(issued) < MaxTokens /\ LoginSteps(One, {"u1"}, {"p1"}, NoFaults))
    \/ AddSteps(One, {"any"}, {Missing, "n1"}, {"d1"}, NoFaults)
    \/ UpdateSteps(One, {"any"}, {BadId} \cup Contested, {"n1"}, {"", "d1"}, NoFaults)
    \/ DeleteSteps(One, {"any"}, {BadId} \cup Contested, NoFaults)
    \/ \E r \in One : Forget(r)
    \/ Tick

SpecAuth == Init /\ [][NextAuth]_vars

(***************************************************************************)
(* SpecSignup: signups that interleave, their saves failing or not.        *)
(***************************************************************************)
NextSignup ==
    \/ SignupSteps(Slots, {"u1", "u2"}, {"", "p1"}, WriteFaults)
    \/ \E r \in Slots : Forget(r)

SpecSignup == Init /\ [][NextSignup]_vars

(***************************************************************************)
(* SpecLogin: logins that interleave with each other and with a signup.    *)
(***************************************************************************)
NextLogin ==
    \/ SignupSteps(One, {"u1"}, {"p1"}, NoFaults)
    \/ LoginSteps(Slots, {"u1", "u2"}, {"p1", "p2"}, ReadFaults)
    \/ \E r \in Slots : Forget(r)

SpecLogin == Init /\ [][NextLogin]_vars

(***************************************************************************)
(* SpecRace: authenticated updates and deletes of one product id that      *)
(* interleave with each other and with adds.                               *)
(***************************************************************************)
NextRace ==
    \/ SignupSteps(One, {"u1"}, {"p1"}, NoFaults)
    \/ LoginSteps(One, {"u1"}, {"p1"}, NoFaults)
    \/ AddSteps(Slots, {"valid"}, {"n1"}, {"d1"}, NoFaults)
    \/ UpdateSteps(Slots, {"valid"}, Contested, {"n2"}, {"d2"}, WriteFaults)
    \/ DeleteSteps(Slots, {"valid"}, Contested, WriteFaults)
    \/ \E r \in Slots : Forget(r)

SpecRace == Init /\ [][NextRace]_vars

(***************************************************************************)
(* Vocabulary of the properties.                                           *)
(***************************************************************************)
Mutating == {"add", "update", "delete"}

\* The slot holds a request (in flight or finished).
Taken(q) == q.pc # "idle"

\* The header has the form "<scheme> <token>" with a non-empty token word.
CarriesToken(h) == h.scheme # Missing /\ Len(h.rest) >= 1 /\ ~TokenFalsy(h.rest[1])

\* The header is exactly "Bearer <token>".
BearerForm(h) == h.scheme = "Bearer" /\ Len(h.rest) = 1 /\ ~TokenFalsy(h.rest[1])

\* The request was turned away by the middleware.
Rejected(q, s) == q.pc = "done" /\ q.status = s /\ ~q.handler /\ q.ops = 0

\* A step in which some request goes from received to answered with s.
AnsweredAtOnce(s) ==
    \E r \in Slots : req[r].pc = "idle" /\ req'[r].pc = "done" /\ req'[r].status = s

\* One hour, in clock ticks.
Hour == ExpiresIn * TicksPerSec

\* A body field is not given, or given empty.
Absent(v) == v \in {Missing, ""}

\* The token is not the server's, or the clock's whole second has reached
\* its expiry.
FailsVerification(tok, t) == tok.sig # JWT_SECRET \/ t \div TicksPerSec >= tok.exp

\* What became of the product-mutating requests without a usable token.
C1_Turned ==
    \A r \in Slots :
        LET q == req[r] IN
        (Taken(q) /\ q.route \in Mutating) =>
            /\ q.header = NoHeader => Rejected(q, 401)
            /\ (CarriesToken(q.header) /\ FailsVerification(q.header.rest[1], q.at))
                   => Rejected(q, 403)

(***************************************************************************)
(* C1.  A request to a product-mutating route (add, update, delete), with  *)
(* any body and path id: with no Authorization header it is answered 401,  *)
(* with a token that fails verification it is answered 403; in both cases  *)
(* the route handler does not run, no store operation is issued for it,    *)
(* and the step that answers it leaves both collections unchanged.         *)
(***************************************************************************)
C1_Unauthenticated ==
    /\ []C1_Turned
    /\ [][(AnsweredAtOnce(401) \/ AnsweredAtOnce(403))
             => UNCHANGED <<sellers, products, nextProductId>>]_vars

\* An update carrying an expired token of the server was answered 403
\* while a product was in the store.
C1_Witness ==
    \E r \in Slots :
        /\ req[r].route = "update"
        /\ req[r].header \in ValidHeaders
        /\ ~Absent(req[r].name) /\ ~Absent(req[r].description)
        /\ ById(req[r].id) # {}
        /\ Rejected(req[r], 403)

(***************************************************************************)
(* C2 as stated.  The middleware lets a request through only when its      *)
(* token is signed with the server's secret; a token a login returned at   *)
(* time t is accepted at every time before t + 1 hour and answered 403 at  *)
(* every time after t + 1 hour.                                            *)
(***************************************************************************)
C2_ToTheHour ==
    \A r \in Slots :
        LET q == req[r]
            tok == HeaderToken(q.header)
        IN (Taken(q) /\ q.route \in Mutating /\ ~TokenFalsy(tok)) =>
            /\ q.handler => tok.sig = JWT_SECRET
            /\ \A p \in issued :
                  p[1] = tok =>
                     /\ q.at < p[2] + Hour => q.handler
                     /\ q.at > p[2] + Hour => Rejected(q, 403)

(***************************************************************************)
(* C2 as amended.  The middleware lets a request through only when its     *)
(* token is signed with the server's secret and the clock, in whole        *)
(* seconds, is before the token's expiry; a token a login returned at time *)
(* t expires one hour after the whole second t falls in: it is accepted    *)
(* while the clock's whole second is before that, and answered 403 from    *)
(* then on.                                                                *)
(***************************************************************************)
C2_ToTheSecond ==
    \A r \in Slots :
        LET q == req[r]
            tok == HeaderToken(q.header)
        IN (Taken(q) /\ q.route \in Mutating /\ ~TokenFalsy(tok)) =>
            /\ q.handler => (tok.sig = JWT_SECRET /\ NumericDate(q.at) < tok.exp)
            /\ \A p \in issued :
                  p[1] = tok =>
                     /\ NumericDate(q.at) < NumericDate(p[2]) + ExpiresIn => q.handler
                     /\ NumericDate(q.at) >= NumericDate(p[2]) + ExpiresIn => Rejected(q, 403)

\* A token was answered 403 less than an hour after the login returned it.
C2_Witness ==
    \E r \in Slots : \E p \in issued :
        /\ req[r].header = Header("Bearer", <<p[1]>>)
        /\ req[r].route \in Mutating
        /\ req[r].at < p[2] + Hour
        /\ Rejected(req[r], 403)

(***************************************************************************)
(* C8.  A protected request reaches its handler only when the              *)
(* Authorization header has the form "Bearer <token>": a header that is    *)
(* present but has no token part, or another scheme, is turned away.       *)
(***************************************************************************)
C8_BearerOnly ==
    \A r \in Slots :
        LET q == req[r] IN
        (Taken(q) /\ q.route \in Mutating /\ q.header # NoHeader /\ ~BearerForm(q.header)) =>
            (Rejected(q, 401) \/ Rejected(q, 403))

\* No username twice, and no success for a signup that found its username held.
C3_Unique ==
    /\ \A s1, s2 \in sellers : s1.username = s2.username => s1 = s2
    /\ \A r \in Slots :
          LET q == req[r] IN
          (q.route = "signup" /\ q.held) =>
              /\ q.status # 201
              /\ (q.pc = "done" /\ ~Absent(q.password)) => q.status = 500

(***************************************************************************)
(* C3.  Usernames are unique in the sellers collection in every state,     *)
(* whatever signups interleave; a signup whose username a stored seller    *)
(* holds when it arrives is never answered 201, is answered 500 once its   *)
(* body has passed validation (username and password present), and its     *)
(* save adds no record.                                                    *)
(***************************************************************************)
C3_UniqueUsernames ==
    /\ []C3_Unique
    /\ [][\A r \in Slots :
             (req[r].route = "signup" /\ req[r].held
                 /\ req[r].pc = "await" /\ req'[r].pc = "settled")
                 => sellers' = sellers]_vars

\* A signup for a held username was answered 500, and so was one that lost
\* the race for a username that was free when it arrived.
C3_Witness ==
    /\ \E s \in sellers : s.username = "u1"
    /\ \E r1, r2 \in Slots :
          /\ req[r1].route = "signup" /\ req[r2].route = "signup"
          /\ req[r1].username = "u1" /\ req[r2].username = "u1"
          /\ req[r1].pc = "done" /\ req[r1].status = 500 /\ req[r1].fault = "none"
          /\ req[r2].pc = "done" /\ req[r2].status = 500 /\ req[r2].fault = "none"
          /\ req[r1].held /\ ~req[r2].held

\* What the client sees of a finished request.
Response(q) ==
    [status |-> q.status, body |-> q.body, text |-> q.text,
     token |-> IF q.body = "token" THEN q.token ELSE UndefinedToken,
     product |-> IF q.body = "product" THEN q.product ELSE NoProduct,
     list |-> IF q.body = "list" THEN q.list ELSE {}]

\* A finished login that found no seller / found one whose hash does not match.
UnknownLogin(q) ==
    /\ q.pc = "done" /\ q.route = "login" /\ q.fault = "none"
    /\ ~Absent(q.username) /\ ~Absent(q.password)
    /\ q.seller = NoSeller

WrongPasswordLogin(q) ==
    /\ q.pc = "done" /\ q.route = "login" /\ q.fault = "none"
    /\ ~Absent(q.username) /\ ~Absent(q.password)
    /\ q.seller # NoSeller
    /\ q.seller.password # bcryptHash(q.password)

(***************************************************************************)
(* C4.  A login (username and password present, store call succeeding) for *)
(* a username with no seller record and a login for a registered username  *)
(* with a wrong password receive the same response: status 401 and the     *)
(* same body.                                                              *)
(***************************************************************************)
C4_LoginIndistinguishable ==
    \A r1, r2 \in Slots :
        (UnknownLogin(req[r1]) /\ WrongPasswordLogin(req[r2])) =>
            /\ Response(req[r1]) = Response(req[r2])
            /\ req[r1].status = 401

\* The same username and password, sent before and after the username was
\* registered with another password.
C4_Witness ==
    \E r1, r2 \in Slots :
        /\ UnknownLogin(req[r1]) /\ WrongPasswordLogin(req[r2])
        /\ req[r1].username = req[r2].username
        /\ req[r1].password = req[r2].password

\* The header is "Bearer <token>" and the token verified when it arrived.
ValidBearer(q) ==
    BearerForm(q.header) /\ ~FailsVerification(q.header.rest[1], q.at)

\* What became of the requests with a required field missing or empty.
C5_Refused ==
    \A r \in Slots :
        LET q == req[r] IN
        /\ (q.route \in {"signup", "login"}
              /\ (Absent(q.username) \/ Absent(q.password)))
               => (q.pc = "done" /\ q.status = 400 /\ q.ops = 0)
        /\ (q.route \in {"add", "update"} /\ ValidBearer(q)
              /\ (Absent(q.name) \/ Absent(q.description)))
               => (q.pc = "done" /\ q.status = 400 /\ q.ops = 0)

(***************************************************************************)
(* C5.  A request whose body lacks a required field, or gives it empty, is *)
(* answered 400 with no store operation issued: signup and login without   *)
(* username or password, add and update (with a valid token) without name  *)
(* or description.  The step that answers it changes neither collection.   *)
(***************************************************************************)
C5_MissingField ==
    /\ []C5_Refused
    /\ [][AnsweredAtOnce(400) => UNCHANGED <<sellers, products, nextProductId>>]_vars

\* An update of a stored product, with a valid token and an empty name, was
\* answered 400.
C5_Witness ==
    \E r \in Slots :
        /\ req[r].route = "update" /\ ValidBearer(req[r])
        /\ req[r].name = "" /\ ~Absent(req[r].description)
        /\ ById(req[r].id) # {}
        /\ req[r].pc = "done" /\ req[r].status = 400

\* A finished update or delete that reached the store call of its handler.
Handled(q) ==
    /\ q.pc = "done" /\ q.route \in {"update", "delete"}
    /\ q.handler /\ q.fault = "none"
    /\ q.route = "update" => (~Absent(q.name) /\ ~Absent(q.description))

(***************************************************************************)
(* C6.  An authenticated update (name and description present) or delete   *)
(* whose path id identifies no product in the store is answered 404 when   *)
(* its store call does not fail, and leaves the products unchanged.        *)
(***************************************************************************)
C6_UnknownIdIs404 ==
    \A r \in Slots :
        LET q == req[r] IN
        (Handled(q) /\ (q.id = BadId \/ q.product = NoProduct)) => q.status = 404

(***************************************************************************)
(* C7.  GET /api/products, with or without an Authorization header, is     *)
(* answered 200 with the products in the store when its find does not      *)
(* fail.  After a sequence of successful operations these are the products *)
(* that 201 responses to add-product reported (each with an id no other    *)
(* product has and the submitted name and description), less those a 200   *)
(* delete removed, each as its latest 200 update reported it.              *)
(***************************************************************************)
C7_ListIsStore ==
    /\ \A r \in Slots :
          LET q == req[r] IN
          /\ (q.pc = "done" /\ q.route = "list" /\ q.fault = "none") =>
                 (q.status = 200 /\ q.body = "list" /\ (q.quiet => q.list = q.expect))
          /\ (q.pc = "done" /\ q.route = "add" /\ q.status = 201) =>
                 /\ q.body = "product"
                 /\ q.product.name = q.name
                 /\ q.product.description = q.description
                 /\ q.product.id \in 1..(nextProductId - 1)
    /\ (clean /\ \A o \in Slots : ~WriteInFlight(o)) => products = ledger
    /\ \A p1, p2 \in products : p1.id = p2.id => p1 = p2

\* A list without a header returned an updated product after another
\* product had been added and deleted.
C7_Witness ==
    \E r \in Slots :
        /\ req[r].pc = "done" /\ req[r].route = "list" /\ req[r].header = NoHeader
        /\ req[r].quiet /\ req[r].status = 200
        /\ req[r].list = {[id |-> 2, name |-> "n2", description |-> "d2"]}
        /\ deleted[1] = 1

\* The error text of each handler's catch.
GenericError(route) ==
    CASE route = "signup" -> "Failed to register seller"
      [] route = "login" -> "Failed to login seller"
      [] route = "list" -> "Failed to fetch products"
      [] route = "add" -> "Failed to insert product"
      [] route = "update" -> "Failed to update product"
      [] route = "delete" -> "Failed to delete product"
      [] OTHER -> ""

\* The next step of the request in slot r, its store call succeeding.
Continue(r) ==
    \/ SignupSave(r, "none") \/ SignupReply(r)
    \/ LoginFind(r, "none") \/ LoginReply(r)
    \/ ListFind(r, "none") \/ ListReply(r)
    \/ AddSave(r, "none") \/ AddReply(r)
    \/ UpdateStore(r, "none") \/ UpdateReply(r)
    \/ DeleteStore(r, "none") \/ DeleteReply(r)

\* One response per finished request, one store operation at most, 500 on
\* a failed call.
C9_Answered ==
    \A r \in Slots :
        LET q == req[r] IN
        /\ q.sent = (IF q.pc = "done" THEN 1 ELSE 0)
        /\ q.ops <= 1
        /\ q.pc \in {"await", "settled"} => ENABLED Continue(r)
        /\ (q.pc = "done" /\ q.fault # "none") =>
               (q.status = 500 /\ q.body = "error" /\ q.text = GenericError(q.route))

(***************************************************************************)
(* C9.  A request is answered once: never twice, and a finished request    *)
(* has its response, and a request in flight can always take its next      *)
(* step.  A store call that fails is answered 500 with the generic error   *)
(* of its handler; at most one store operation is issued per request, and   *)
(* the continuation that answers leaves the collections as the call left   *)
(* them.                                                                   *)
(***************************************************************************)
C9_FailuresCaught ==
    /\ []C9_Answered
    /\ [][\A r \in Slots :
             (req[r].pc = "settled" /\ req'[r].pc = "done")
                 => UNCHANGED <<sellers, products>>]_vars

\* An update whose store call failed after taking effect was answered 500
\* with the product changed.
C9_Witness ==
    \E r \in Slots :
        /\ req[r].pc = "done" /\ req[r].route = "update" /\ req[r].fault = "after"
        /\ req[r].status = 500
        /\ \E p \in products : p.id = req[r].id /\ p.name = req[r].name

(***************************************************************************)
(* C10.  Updates and deletes of one product id that interleave: once a     *)
(* delete of the id has been answered 200 the product is in the store in   *)
(* no later state, every update of the id whose store call runs after that *)
(* is answered 404, and at most one delete of the id is answered 200.      *)
(***************************************************************************)
C10_NoResurrection ==
    /\ \A i \in 1..MaxProductId :
          /\ deleted[i] <= 1
          /\ deleted[i] > 0 => ById(i) = {}
    /\ \A r \in Slots :
          LET q == req[r] IN
          /\ (q.pc = "done" /\ q.route = "update" /\ q.gone /\ q.fault = "none")
                 => q.status = 404
          /\ (q.pc = "done" /\ q.route = "delete" /\ q.status # 200
                 /\ q.fault = "none" /\ q.id # BadId /\ deleted[q.id] > 0)
                 => q.status = 404

\* Two deletes of one id raced: one was answered 200, the other 404.
C10_Witness ==
    \E r1, r2 \in Slots :
        /\ r1 # r2
        /\ req[r1].pc = "done" /\ req[r1].route = "delete" /\ req[r1].status = 200
        /\ req[r2].pc = "done" /\ req[r2].route = "delete" /\ req[r2].status = 404
        /\ req[r1].id = req[r2].id

====
